---- MODULE Spec2Model ----
(***************************************************************************)
(* Model of paris_player_exporter.py: the .paris schedule parser           *)
(* (parse_paris), the PCM16 synthesizer (synthesize_pcm16), the WAV writer *)
(* (write_wav) as driven by App.synthesize_to_wav, and the Play / Stop /   *)
(* watcher machinery of App.                                               *)
(*                                                                         *)
(* Numbers.  Python floats are modelled as exact decimals with one         *)
(* fractional digit, stored as integers in tenths (volume 0.6 is 6,        *)
(* ramp 1.5 ms is 15, frequency 700 Hz is 7000).  Sample rates, durations  *)
(* and sample counts are plain integers.  For every value the model draws, *)
(* the double-precision results of lines 65 and 72 equal the exact results *)
(* computed here.                                                          *)
(*                                                                         *)
(* Text.  A line of a file is a sequence of one-character strings.         *)
(*                                                                         *)
(* Samples.  TLA+ has no reals, so a tone sample is kept as the term the   *)
(* code evaluates: the envelope branch taken, the argument of its cosine   *)
(* and the index t inside the sine.  Its two bytes are the low and the     *)
(* high byte of that term.  A silence byte is the zero byte.               *)
(***************************************************************************)
EXTENDS Integers, Sequences, FiniteSets, TLC

VARIABLES
    \* parse_paris
    lines,          \* the lines of the file being read
    ln_i,           \* number of lines consumed by "for line in f"
    rows,           \* the local list rows
    parse_pc,       \* "idle" (no call), "loop", "returned" or "raised"
    \* synthesize_pcm16
    args,           \* the call's arguments (rows, freq_hz, samplerate, volume, ramp_ms)
    loc,            \* the clamped locals of lines 61-65
    frames,         \* the bytearray frames
    t,              \* running sample index
    seg_i,          \* number of rows consumed by the for loop of line 71
    synth_pc,       \* "idle" (no call), "entry", "loop" or "returned"
    \* App and its threads
    fs,             \* content of the .paris file at paris_path
    paris_path,     \* App.paris_path
    var_freq, var_sr, var_vol, var_ramp,   \* the four entry fields, in tenths
    outcome,        \* what the last synthesize_to_wav call did
    wav,            \* the WAV file written by the last call, or NoWav
    player_thread,  \* App.player_thread: NoId or a thread id
    tmp_wav,        \* App.tmp_wav: NoId or the id of the temp directory holding preview.wav
    alive,          \* ids of PlayerThreads that are running
    stopped,        \* ids of PlayerThreads whose process got terminate()
    started,        \* ids of every PlayerThread ever started
    dirs,           \* temp directories that exist
    made,           \* number of mkdtemp calls so far
    watchers,       \* number of _wait_end threads still in their loop
    pending,        \* number of _play_done callbacks queued with after(0, ...)
    btn_play, btn_stop    \* widget states

parseVars == <<lines, ln_i, rows, parse_pc>>
synthVars == <<args, loc, frames, t, seg_i, synth_pc>>
wavVars   == <<fs, paris_path, var_freq, var_sr, var_vol, var_ramp, outcome, wav>>
appVars   == <<player_thread, tmp_wav, alive, stopped, started, dirs, made,
               watchers, pending, btn_play, btn_stop>>
vars == <<parseVars, synthVars, wavVars, appVars>>

None == "None"       \* paris_path before a file is opened
NoId == 0             \* None in player_thread and tmp_wav; ids start at 1

Max(a, b) == IF a >= b THEN a ELSE b
Min(a, b) == IF a <= b THEN a ELSE b

\* ---------------------------------------------------------------------------
\* Bounds
\* ---------------------------------------------------------------------------
MaxLines == 2       \* lines in a file read by parse_paris
MaxSegs == 2        \* rows handed to synthesize_pcm16
MaxDur == 2         \* largest duration_ms of a row handed to synthesize_pcm16
MaxPlays == 3       \* mkdtemp calls made by on_play

\* ---------------------------------------------------------------------------
\* Text helpers (str.strip, str.lower, str.startswith, str.split, int)
\* ---------------------------------------------------------------------------
IsSpace(c) == c \in {" ", "\t", "\n", "\r"}

RECURSIVE LStrip(_)
LStrip(s) == IF s # <<>> /\ IsSpace(Head(s)) THEN LStrip(Tail(s)) ELSE s

RECURSIVE RStrip(_)
RStrip(s) ==
    IF s # <<>> /\ IsSpace(s[Len(s)]) THEN RStrip(SubSeq(s, 1, Len(s) - 1)) ELSE s

Strip(s) == RStrip(LStrip(s))

LowerChar(c) ==
    CASE c = "D" -> "d" [] c = "U" -> "u" [] c = "R" -> "r" [] c = "A" -> "a"
      [] c = "T" -> "t" [] c = "I" -> "i" [] c = "O" -> "o" [] c = "N" -> "n"
      [] c = "M" -> "m" [] c = "S" -> "s" [] OTHER -> c

Lower(s) == [k \in 1..Len(s) |-> LowerChar(s[k])]

StartsWith(s, p) == Len(s) >= Len(p) /\ SubSeq(s, 1, Len(p)) = p

\* s.split(','): the fields between the commas, empty fields included
RECURSIVE SplitFrom(_, _, _)
SplitFrom(s, k, cur) ==
    IF k > Len(s) THEN <<cur>>
    ELSE IF s[k] = "," THEN <<cur>> \o SplitFrom(s, k + 1, <<>>)
    ELSE SplitFrom(s, k + 1, Append(cur, s[k]))

Split(s) == SplitFrom(s, 1, <<>>)

IsDigit(c) == c \in {"0", "1", "2", "3", "4", "5", "6", "7", "8", "9"}

DigitVal(c) ==
    CASE c = "0" -> 0 [] c = "1" -> 1 [] c = "2" -> 2 [] c = "3" -> 3
      [] c = "4" -> 4 [] c = "5" -> 5 [] c = "6" -> 6 [] c = "7" -> 7
      [] c = "8" -> 8 [] c = "9" -> 9

\* The digit part of an int literal: digits, single underscores between digits
IsDigits(s) ==
    /\ s # <<>>
    /\ IsDigit(s[1]) /\ IsDigit(s[Len(s)])
    /\ \A k \in 1..Len(s) : IsDigit(s[k]) \/ s[k] = "_"
    /\ \A k \in 1..(Len(s) - 1) : ~(s[k] = "_" /\ s[k + 1] = "_")

RECURSIVE DigitsVal(_, _)
DigitsVal(s, acc) ==
    IF s = <<>> THEN acc
    ELSE IF Head(s) = "_" THEN DigitsVal(Tail(s), acc)
    ELSE DigitsVal(Tail(s), 10 * acc + DigitVal(Head(s)))

HasSign(s) == s # <<>> /\ Head(s) \in {"+", "-"}

\* int(s) succeeds
IntOk(s) ==
    LET u == Strip(s) IN IsDigits(IF HasSign(u) THEN Tail(u) ELSE u)

\* int(s), when it succeeds
IntVal(s) ==
    LET u == Strip(s)
        m == DigitsVal(IF HasSign(u) THEN Tail(u) ELSE u, 0)
    IN IF u # <<>> /\ Head(u) = "-" THEN 0 - m ELSE m

\* ---------------------------------------------------------------------------
\* parse_paris, one line (lines 38-53)
\* ---------------------------------------------------------------------------
HeaderWord == <<"d", "u", "r", "a", "t", "i", "o", "n", "_", "m", "s">>

\* Mutant of ParseLine: a zero duration is dropped (d > 0 for d >= 0)
ParseLineDropZero(line) ==
    LET ln == Strip(line)
        parts == [k \in 1..Len(Split(ln)) |-> Strip(Split(ln)[k])]
    IN  IF ln = <<>> \/ StartsWith(ln, <<"#">>) THEN [tag |-> "blank", row |-> <<>>]
        ELSE IF StartsWith(Lower(ln), HeaderWord) THEN [tag |-> "header", row |-> <<>>]
        ELSE IF Len(parts) # 2 THEN [tag |-> "fields", row |-> <<>>]
        ELSE IF ~IntOk(parts[1]) \/ ~IntOk(parts[2]) THEN [tag |-> "except", row |-> <<>>]
        ELSE LET d == IntVal(parts[1])
                 v == IF IntVal(parts[2]) # 0 THEN 1 ELSE 0
             IN  IF d > 0 THEN [tag |-> "row", row |-> <<d, v>>]
                 ELSE [tag |-> "negative", row |-> <<>>]

ParseLine(line) ==
    LET ln == Strip(line)
        parts == [k \in 1..Len(Split(ln)) |-> Strip(Split(ln)[k])]
    IN  IF ln = <<>> \/ StartsWith(ln, <<"#">>) THEN [tag |-> "blank", row |-> <<>>]
        ELSE IF StartsWith(Lower(ln), HeaderWord) THEN [tag |-> "header", row |-> <<>>]
        ELSE IF Len(parts) # 2 THEN [tag |-> "fields", row |-> <<>>]
        ELSE IF ~IntOk(parts[1]) \/ ~IntOk(parts[2]) THEN [tag |-> "except", row |-> <<>>]
        ELSE LET d == IntVal(parts[1])
                 v == IF IntVal(parts[2]) # 0 THEN 1 ELSE 0
             IN  IF d >= 0 THEN [tag |-> "row", row |-> <<d, v>>]
                 ELSE [tag |-> "negative", row |-> <<>>]

\* The rows list after the loop of lines 37-53 has read every line
RECURSIVE ParseRows(_)
ParseRows(ls) ==
    IF ls = <<>> THEN <<>>
    ELSE LET r == ParseLine(Head(ls))
         IN  (IF r.tag = "row" THEN <<r.row>> ELSE <<>>) \o ParseRows(Tail(ls))

\* parse_paris as a function: the rows, or the ValueError of line 55
ParseParis(ls) ==
    IF ParseRows(ls) = <<>> THEN [raised |-> TRUE, rows |-> <<>>]
    ELSE [raised |-> FALSE, rows |-> ParseRows(ls)]

\* ---------------------------------------------------------------------------
\* The lines a file is made of
\* ---------------------------------------------------------------------------
LineTone == <<"1", ",", "1", "\n">>
LineSilencePadded == <<" ", "2", " ", ",", " ", "0", " ", "\n">>
LineZeroDur == <<"0", ",", "5", "\n">>
LineNegValue == <<"1", ",", "-", "1", "\n">>
LinePlusUnderscore == <<"+", "1", ",", "1", "_", "0", "\n">>
LineComment == <<"#", " ", "c", "\n">>
LineBlank == <<" ", "\n">>
LineHeader == <<"D", "u", "r", "a", "t", "i", "o", "n", "_", "M", "S", ",", "v", "a", "l", "u", "e", "\n">>
LineNegDur == <<"-", "1", ",", "1", "\n">>
LineThreeFields == <<"1", ",", "2", ",", "3", "\n">>
LineOneField == <<"7", "\n">>
LineNotInt == <<"x", ",", "1", "\n">>
LineFloat == <<"1", ".", "5", ",", "1", "\n">>
LineEmptyField == <<",", "1", "\n">>

Corpus ==
    {LineTone, LineSilencePadded, LineZeroDur, LineNegValue,
     LinePlusUnderscore, LineComment, LineBlank, LineHeader,
     LineNegDur, LineThreeFields, LineOneField, LineNotInt,
     LineFloat, LineEmptyField}

SeqsUpTo(S, n) == UNION {[1..k -> S] : k \in 0..n}

\* ---------------------------------------------------------------------------
\* Rest states of the parts a specification does not exercise
\* ---------------------------------------------------------------------------
ParseIdle ==
    /\ lines = <<>> /\ ln_i = 0 /\ rows = <<>> /\ parse_pc = "idle"

NoArgs == [rows |-> <<>>, freq_hz |-> 0, samplerate |-> 0, volume |-> 0, ramp_ms |-> 0]
NoLoc == [samplerate |-> 0, volume |-> 0, freq_hz |-> 0, ramp_ms |-> 0, ramp_samples |-> 0]

SynthIdle ==
    /\ args = NoArgs /\ loc = NoLoc /\ frames = <<>> /\ t = 0 /\ seg_i = 0
    /\ synth_pc = "idle"

NoWav == [written |-> FALSE, nchannels |-> 0, sampwidth |-> 0, framerate |-> 0,
          nframes |-> 0, data |-> <<>>]

\* App.__init__ (lines 161-163, 199-201), no thread started yet
AppInit ==
    /\ player_thread = NoId /\ tmp_wav = NoId
    /\ alive = {} /\ stopped = {} /\ started = {} /\ dirs = {} /\ made = 0
    /\ watchers = 0 /\ pending = 0
    /\ btn_play = "disabled" /\ btn_stop = "disabled"

\* ---------------------------------------------------------------------------
\* parse_paris, step by step (lines 33-56)
\* ---------------------------------------------------------------------------
ParseAt(tag) ==
    /\ parse_pc = "loop"
    /\ ln_i < Len(lines)
    /\ ParseLine(lines[ln_i + 1]).tag = tag

ParseAdvance ==
    /\ ln_i' = ln_i + 1
    /\ UNCHANGED <<lines, rows, parse_pc>>
    /\ UNCHANGED <<synthVars, wavVars, appVars>>

\* lines 39-40
ParseSkipBlank ==
    /\ ParseAt("blank")
    /\ ParseAdvance

\* lines 41-42
ParseSkipHeader ==
    /\ ParseAt("header")
    /\ ParseAdvance

\* lines 44-45
ParseSkipFields ==
    /\ ParseAt("fields")
    /\ ParseAdvance

\* lines 52-53
ParseSkipExcept ==
    /\ ParseAt("except")
    /\ ParseAdvance

\* line 50, condition false
ParseSkipNegative ==
    /\ ParseAt("negative")
    /\ ParseAdvance

\* line 51
ParseAppend ==
    /\ ParseAt("row")
    /\ rows' = Append(rows, ParseLine(lines[ln_i + 1]).row)
    /\ ln_i' = ln_i + 1
    /\ UNCHANGED <<lines, parse_pc>>
    /\ UNCHANGED <<synthVars, wavVars, appVars>>

\* Mutant of ParseRaise: a skipped line is an error
ParseRaiseOnSkip ==
    /\ parse_pc = "loop" /\ ln_i = Len(lines)
    /\ Len(rows) < Len(lines)
    /\ parse_pc' = "raised"
    /\ UNCHANGED <<lines, ln_i, rows>>
    /\ UNCHANGED <<synthVars, wavVars, appVars>>

\* lines 54-55
ParseRaise ==
    /\ parse_pc = "loop" /\ ln_i = Len(lines)
    /\ rows = <<>>
    /\ parse_pc' = "raised"
    /\ UNCHANGED <<lines, ln_i, rows>>
    /\ UNCHANGED <<synthVars, wavVars, appVars>>

\* line 56
ParseReturn ==
    /\ parse_pc = "loop" /\ ln_i = Len(lines)
    /\ rows # <<>>
    /\ parse_pc' = "returned"
    /\ UNCHANGED <<lines, ln_i, rows>>
    /\ UNCHANGED <<synthVars, wavVars, appVars>>


\* ---------------------------------------------------------------------------
\* synthesize_pcm16 (lines 58-99)
\* ---------------------------------------------------------------------------
MinSampleRate == 8000
MaxSampleRate == 192000
MinVolume == 0          \* 0.0
MaxVolume == 10         \* 1.0, in tenths
MinFreq == 500          \* 50.0 Hz, in tenths
MaxFreq == 60000        \* 6000.0 Hz, in tenths
MinRamp == 0            \* 0.0 ms
MaxRamp == 500          \* 50.0 ms, in tenths

\* max(lo, min(hi, x))
Clamp(lo, hi, x) == Max(lo, Min(hi, x))

\* lines 61-65; ramp_ms is in tenths of a millisecond, so ramp_ms / 1000.0 is
\* ramp_ms / 10000 here, and int() of a non-negative value is the floor
ClampParams(freq_hz, samplerate, volume, ramp_ms) ==
    LET sr == Clamp(MinSampleRate, MaxSampleRate, samplerate)
        rm == Clamp(MinRamp, MaxRamp, ramp_ms)
    IN  [samplerate |-> sr,
         volume |-> Clamp(MinVolume, MaxVolume, volume),
         freq_hz |-> Clamp(MinFreq, MaxFreq, freq_hz),
         ramp_ms |-> rm,
         ramp_samples |-> (sr * rm) \div 10000]

\* round(): to the nearest integer, a tie to the even neighbour
RoundHalfEven(num, den) ==
    LET q == num \div den
        r == num % den
    IN  IF 2 * r < den THEN q
        ELSE IF 2 * r > den THEN q + 1
        ELSE IF q % 2 = 0 THEN q ELSE q + 1

\* Mutant of SegLen: int() without round()
SegLenTruncated(samplerate, dur_ms) == (samplerate * dur_ms) \div 1000

\* line 72
SegLen(samplerate, dur_ms) == RoundHalfEven(samplerate * dur_ms, 1000)

\* Mutant of Envelope: the fade-in window one sample too long
EnvelopeOffByOne(n, seg_len, ramp_samples) ==
    IF ramp_samples > 0
    THEN IF n <= ramp_samples THEN [branch |-> "in", k |-> n]
         ELSE IF seg_len - n <= ramp_samples THEN [branch |-> "out", k |-> seg_len - n]
         ELSE [branch |-> "one", k |-> 0]
    ELSE [branch |-> "one", k |-> 0]

\* Mutant of Envelope: the fade-out test made before the fade-in test
EnvelopeFadeOutFirst(n, seg_len, ramp_samples) ==
    IF ramp_samples > 0
    THEN IF seg_len - n <= ramp_samples THEN [branch |-> "out", k |-> seg_len - n]
         ELSE IF n < ramp_samples THEN [branch |-> "in", k |-> n]
         ELSE [branch |-> "one", k |-> 0]
    ELSE [branch |-> "one", k |-> 0]

\* lines 80-89: the branch taken and the argument of its cosine
Envelope(n, seg_len, ramp_samples) ==
    IF ramp_samples > 0
    THEN IF n < ramp_samples THEN [branch |-> "in", k |-> n]
         ELSE IF seg_len - n <= ramp_samples THEN [branch |-> "out", k |-> seg_len - n]
         ELSE [branch |-> "one", k |-> 0]
    ELSE [branch |-> "one", k |-> 0]

ZeroByte == [kind |-> "zero", half |-> "-", branch |-> "-", k |-> 0, t |-> 0]

\* lines 90-92: struct.pack('<h', s), low byte first
Pack(env, tt) ==
    << [kind |-> "tone", half |-> "lo", branch |-> env.branch, k |-> env.k, t |-> tt],
       [kind |-> "tone", half |-> "hi", branch |-> env.branch, k |-> env.k, t |-> tt] >>

\* Mutant of ToneSegment: the sine driven by the local index n
ToneSegmentLocalIndex(seg_len, ramp_samples, fr, tt) ==
    [frames |-> fr \o [b \in 1..(2 * seg_len) |->
                          LET n == (b - 1) \div 2
                          IN  Pack(Envelope(n, seg_len, ramp_samples), n)[b - 2 * n]],
     t |-> tt + seg_len]

\* lines 77-93: the loop over n.  Iteration n runs with the index t at
\* tt + n, tt being the index at the start of the segment, appends the two
\* bytes of its sample, and line 93 leaves the index at tt + n + 1.
ToneSegment(seg_len, ramp_samples, fr, tt) ==
    [frames |-> fr \o [b \in 1..(2 * seg_len) |->
                          LET n == (b - 1) \div 2
                          IN  Pack(Envelope(n, seg_len, ramp_samples), tt + n)[b - 2 * n]],
     t |-> tt + seg_len]

\* Mutant of SilenceSegment: one zero byte per sample instead of two
SilenceSegmentOneByte(seg_len, fr, tt) ==
    [frames |-> fr \o [b \in 1..seg_len |-> ZeroByte], t |-> tt + seg_len]

\* lines 96-97
SilenceSegment(seg_len, fr, tt) ==
    [frames |-> fr \o [b \in 1..(2 * seg_len) |-> ZeroByte], t |-> tt + seg_len]

\* lines 72-97: one iteration of the loop over rows
ProcessRow(row, l, fr, tt) ==
    LET seg_len == SegLen(l.samplerate, row[1])
    IN  IF seg_len <= 0 THEN [frames |-> fr, t |-> tt]
        ELSE IF row[2] = 1 THEN ToneSegment(seg_len, l.ramp_samples, fr, tt)
        ELSE SilenceSegment(seg_len, fr, tt)

RECURSIVE ProcessRows(_, _, _, _)
ProcessRows(rs, l, fr, tt) ==
    IF rs = <<>> THEN [frames |-> fr, t |-> tt]
    ELSE LET st == ProcessRow(Head(rs), l, fr, tt)
         IN  ProcessRows(Tail(rs), l, st.frames, st.t)

\* synthesize_pcm16 as a function: (bytes(frames), t)
SynthesizePcm16(rs, freq_hz, samplerate, volume, ramp_ms) ==
    ProcessRows(rs, ClampParams(freq_hz, samplerate, volume, ramp_ms), <<>>, 0)

\* lines 61-69
SynthEnter ==
    /\ synth_pc = "entry"
    /\ loc' = ClampParams(args.freq_hz, args.samplerate, args.volume, args.ramp_ms)
    /\ frames' = <<>>
    /\ t' = 0
    /\ seg_i' = 0
    /\ synth_pc' = "loop"
    /\ UNCHANGED args
    /\ UNCHANGED <<parseVars, wavVars, appVars>>

SynthAt ==
    /\ synth_pc = "loop"
    /\ seg_i < Len(args.rows)

SynthRow ==
    LET st == ProcessRow(args.rows[seg_i + 1], loc, frames, t)
    IN  /\ frames' = st.frames
        /\ t' = st.t
        /\ seg_i' = seg_i + 1
        /\ UNCHANGED <<args, loc, synth_pc>>
        /\ UNCHANGED <<parseVars, wavVars, appVars>>

\* lines 73-74
SynthSkip ==
    /\ SynthAt
    /\ SegLen(loc.samplerate, args.rows[seg_i + 1][1]) <= 0
    /\ SynthRow

\* lines 75-93
SynthTone ==
    /\ SynthAt
    /\ SegLen(loc.samplerate, args.rows[seg_i + 1][1]) > 0
    /\ args.rows[seg_i + 1][2] = 1
    /\ SynthRow

\* lines 94-97
SynthSilence ==
    /\ SynthAt
    /\ SegLen(loc.samplerate, args.rows[seg_i + 1][1]) > 0
    /\ args.rows[seg_i + 1][2] # 1
    /\ SynthRow

\* line 99
SynthReturn ==
    /\ synth_pc = "loop"
    /\ seg_i = Len(args.rows)
    /\ synth_pc' = "returned"
    /\ UNCHANGED <<args, loc, frames, t, seg_i>>
    /\ UNCHANGED <<parseVars, wavVars, appVars>>


\* ---------------------------------------------------------------------------
\* App.read_params, write_wav, App.synthesize_to_wav
\* ---------------------------------------------------------------------------
DefaultFreq == 7000     \* "700", in tenths
DefaultSr == 441000     \* "44100", in tenths
DefaultVol == 6         \* "0.6", in tenths
DefaultRamp == 50       \* "5", in tenths

\* int(x) of a float given in tenths: truncation toward zero
IntOfTenths(x) == IF x >= 0 THEN x \div 10 ELSE 0 - ((0 - x) \div 10)

\* lines 222-233; the entries hold numbers, so only line 228 can raise
ReadParams(vf, vs, vv, vr) ==
    IF ~(0 <= vv /\ vv <= 10)
    THEN [ok |-> FALSE, freq |-> 0, sr |-> 0, vol |-> 0, ramp |-> 0]
    ELSE [ok |-> TRUE, freq |-> vf, sr |-> IntOfTenths(vs), vol |-> vv, ramp |-> vr]

\* lines 101-107, with the wave module's rule that setframerate raises for a
\* rate <= 0 and that the header's frame count is len(data) // (channels * width)
WriteWav(pcm_bytes, samplerate) ==
    IF samplerate <= 0 THEN NoWav
    ELSE [written |-> TRUE, nchannels |-> 1, sampwidth |-> 2, framerate |-> samplerate,
          nframes |-> Len(pcm_bytes) \div (1 * 2), data |-> pcm_bytes]

\* lines 252-269: the returned flag (as the branch taken) and the file at out_path
SynthesizeToWav(pp, content, vf, vs, vv, vr, old) ==
    IF pp = None THEN [outcome |-> "nofile", wav |-> old]
    ELSE LET params == ReadParams(vf, vs, vv, vr)
         IN  IF ~params.ok THEN [outcome |-> "params", wav |-> old]
             ELSE LET parsed == ParseParis(content)
                  IN  IF parsed.raised THEN [outcome |-> "failed", wav |-> old]
                      ELSE LET pcm == SynthesizePcm16(parsed.rows, params.freq, params.sr,
                                                      params.vol, params.ramp)
                               w == WriteWav(pcm.frames, params.sr)
                           IN  IF w.written THEN [outcome |-> "written", wav |-> w]
                               ELSE [outcome |-> "failed", wav |-> w]

Call == SynthesizeToWav(paris_path, fs, var_freq, var_sr, var_vol, var_ramp, wav)

\* ---------------------------------------------------------------------------
\* App.on_export_wav (lines 327-341), a save path having been chosen
\* ---------------------------------------------------------------------------
\* lines 328-330
ExportNoFile ==
    /\ paris_path = None
    /\ UNCHANGED vars

ExportCall ==
    /\ outcome' = Call.outcome
    /\ wav' = Call.wav
    /\ UNCHANGED <<fs, paris_path, var_freq, var_sr, var_vol, var_ramp>>
    /\ UNCHANGED <<parseVars, synthVars, appVars>>

\* lines 256-258
ExportBadParams ==
    /\ paris_path # None
    /\ Call.outcome = "params"
    /\ ExportCall

\* lines 266-269
ExportFailed ==
    /\ paris_path # None
    /\ Call.outcome = "failed"
    /\ ExportCall

\* lines 263-265, 340-341
ExportWritten ==
    /\ paris_path # None
    /\ Call.outcome = "written"
    /\ ExportCall

\* ---------------------------------------------------------------------------
\* App: Open, Play, Stop, the player thread, the watcher thread
\* ---------------------------------------------------------------------------
Path == "schedule.paris"

\* lines 235-247: the chosen file parses
OnOpenOk(content) ==
    /\ ~ParseParis(content).raised
    /\ fs' = content
    /\ paris_path' = Path
    /\ btn_play' = "normal"
    /\ UNCHANGED <<var_freq, var_sr, var_vol, var_ramp, outcome, wav>>
    /\ UNCHANGED <<player_thread, tmp_wav, alive, stopped, started, dirs, made,
                   watchers, pending, btn_stop>>
    /\ UNCHANGED <<parseVars, synthVars>>

\* lines 240-241, 248-250: the dialog is cancelled or the file does not parse
OnOpenFail(content) ==
    /\ ParseParis(content).raised
    /\ UNCHANGED vars

\* the user types a volume into the entry of line 188
EditVolume(v) ==
    /\ var_vol' = v
    /\ UNCHANGED <<fs, paris_path, var_freq, var_sr, var_ramp, outcome, wav>>
    /\ UNCHANGED <<parseVars, synthVars, appVars>>

\* lines 272-273
OnPlayBusy ==
    /\ btn_play = "normal"
    /\ player_thread # NoId
    /\ UNCHANGED vars

\* lines 276-282: mkdtemp, synthesis fails, rmtree
OnPlayFail ==
    /\ btn_play = "normal"
    /\ player_thread = NoId
    /\ made < MaxPlays
    /\ Call.outcome # "written"
    /\ made' = made + 1
    /\ tmp_wav' = NoId
    /\ dirs' = (dirs \cup {made + 1}) \ {made + 1}
    /\ outcome' = Call.outcome
    /\ wav' = Call.wav
    /\ UNCHANGED <<fs, paris_path, var_freq, var_sr, var_vol, var_ramp>>
    /\ UNCHANGED <<player_thread, alive, stopped, started, watchers, pending,
                   btn_play, btn_stop>>
    /\ UNCHANGED <<parseVars, synthVars>>

\* Mutant of OnPlayStart: the test of lines 272-273 is missing
OnPlayStartUnguarded ==
    /\ btn_play = "normal"
    /\ made < MaxPlays
    /\ Call.outcome = "written"
    /\ made' = made + 1
    /\ dirs' = dirs \cup {made + 1}
    /\ tmp_wav' = made + 1
    /\ outcome' = Call.outcome
    /\ wav' = Call.wav
    /\ player_thread' = made + 1
    /\ alive' = alive \cup {made + 1}
    /\ started' = started \cup {made + 1}
    /\ btn_play' = "disabled"
    /\ btn_stop' = "normal"
    /\ watchers' = watchers + 1
    /\ UNCHANGED <<fs, paris_path, var_freq, var_sr, var_vol, var_ramp>>
    /\ UNCHANGED <<stopped, pending>>
    /\ UNCHANGED <<parseVars, synthVars>>

\* lines 276-290: mkdtemp, synthesis succeeds, player and watcher threads start
OnPlayStart ==
    /\ btn_play = "normal"
    /\ player_thread = NoId
    /\ made < MaxPlays
    /\ Call.outcome = "written"
    /\ made' = made + 1
    /\ dirs' = dirs \cup {made + 1}
    /\ tmp_wav' = made + 1
    /\ outcome' = Call.outcome
    /\ wav' = Call.wav
    /\ player_thread' = made + 1
    /\ alive' = alive \cup {made + 1}
    /\ started' = started \cup {made + 1}
    /\ btn_play' = "disabled"
    /\ btn_stop' = "normal"
    /\ watchers' = watchers + 1
    /\ UNCHANGED <<fs, paris_path, var_freq, var_sr, var_vol, var_ramp>>
    /\ UNCHANGED <<stopped, pending>>
    /\ UNCHANGED <<parseVars, synthVars>>

\* lines 311-314 and 143-150: terminate() reaches a process that still runs
OnStop ==
    /\ btn_stop = "normal"
    /\ stopped' = IF player_thread # NoId /\ player_thread \in alive
                  THEN stopped \cup {player_thread} ELSE stopped
    /\ UNCHANGED <<player_thread, tmp_wav, alive, started, dirs, made,
                   watchers, pending, btn_play, btn_stop>>
    /\ UNCHANGED <<parseVars, synthVars, wavVars>>

\* lines 119-141: run() returns, the player having finished or been terminated
PlayerEnd(id) ==
    /\ id \in alive
    /\ alive' = alive \ {id}
    /\ UNCHANGED <<player_thread, tmp_wav, stopped, started, dirs, made,
                   watchers, pending, btn_play, btn_stop>>
    /\ UNCHANGED <<parseVars, synthVars, wavVars>>

\* lines 297-302: the loop condition is false, _play_done is queued.  An
\* iteration whose condition is true only sleeps.
WaitEndExit ==
    /\ watchers > 0
    /\ ~(player_thread # NoId /\ player_thread \in alive)
    /\ watchers' = watchers - 1
    /\ pending' = pending + 1
    /\ UNCHANGED <<player_thread, tmp_wav, alive, stopped, started, dirs, made,
                   btn_play, btn_stop>>
    /\ UNCHANGED <<parseVars, synthVars, wavVars>>

\* lines 317-325
CleanupTmp(tw, ds) ==
    IF tw # NoId THEN [tmp_wav |-> NoId, dirs |-> ds \ {tw}]
    ELSE [tmp_wav |-> tw, dirs |-> ds]

\* lines 304-309, run by the main loop
PlayDone ==
    /\ pending > 0
    /\ pending' = pending - 1
    /\ btn_play' = "normal"
    /\ btn_stop' = "disabled"
    /\ tmp_wav' = CleanupTmp(tmp_wav, dirs).tmp_wav
    /\ dirs' = CleanupTmp(tmp_wav, dirs).dirs
    /\ player_thread' = NoId
    /\ UNCHANGED <<alive, stopped, started, made, watchers>>
    /\ UNCHANGED <<parseVars, synthVars, wavVars>>


\* ---------------------------------------------------------------------------
\* Specifications
\* ---------------------------------------------------------------------------
EntriesDefault ==
    /\ var_freq = DefaultFreq /\ var_sr = DefaultSr
    /\ var_vol = DefaultVol /\ var_ramp = DefaultRamp

WavIdle ==
    /\ fs = <<>> /\ paris_path = None /\ EntriesDefault
    /\ outcome = "none" /\ wav = NoWav

\* Arguments of a synthesize_pcm16 call: in range, below and above the range
RowValues == (0..MaxDur) \X {0, 1}
ToneArgs == {<<7000, 6>>, <<0 - 100, 50>>}      \* (freq_hz, volume)
RateArgs == {4000, 8500, 9500, 200000}
RampArgs == {0, 5, 15, 600}

\* One call of synthesize_pcm16
Init ==
    /\ \E rs \in SeqsUpTo(RowValues, MaxSegs), fv \in ToneArgs,
          sr \in RateArgs, rm \in RampArgs :
            args = [rows |-> rs, freq_hz |-> fv[1], samplerate |-> sr,
                    volume |-> fv[2], ramp_ms |-> rm]
    /\ loc = NoLoc /\ frames = <<>> /\ t = 0 /\ seg_i = 0
    /\ synth_pc = "entry"
    /\ ParseIdle /\ WavIdle /\ AppInit

Next ==
    \/ SynthEnter
    \/ SynthSkip
    \/ SynthTone
    \/ SynthSilence
    \/ SynthReturn

Spec == Init /\ [][Next]_vars

\* One call of parse_paris
InitParse ==
    /\ lines \in SeqsUpTo(Corpus, MaxLines)
    /\ ln_i = 0 /\ rows = <<>>
    /\ parse_pc = "loop"
    /\ SynthIdle /\ WavIdle /\ AppInit

NextParse ==
    \/ ParseSkipBlank
    \/ ParseSkipHeader
    \/ ParseSkipFields
    \/ ParseSkipExcept
    \/ ParseSkipNegative
    \/ ParseAppend
    \/ ParseRaise
    \/ ParseReturn

SpecParse == InitParse /\ [][NextParse]_vars

\* The App with its entries filled in and, possibly, a file opened; the file
\* may have been rewritten on disk since
WavCorpus == {LineTone, LineSilencePadded, LineComment}
FreqEntries == {DefaultFreq, 0 - 100}
SrEntries == {DefaultSr, 40000, 85009, 2000000, 0 - 10}
VolEntries == {DefaultVol, 10, 50}
RampEntries == {DefaultRamp, 0, 600}

InitWav ==
    /\ paris_path \in {None, Path}
    /\ fs \in SeqsUpTo(WavCorpus, MaxLines)
    /\ paris_path = None => fs = <<>>
    /\ var_freq \in FreqEntries /\ var_sr \in SrEntries
    /\ var_vol \in VolEntries /\ var_ramp \in RampEntries
    /\ outcome = "none" /\ wav = NoWav
    /\ ParseIdle /\ SynthIdle /\ AppInit

NextWav ==
    \/ ExportNoFile
    \/ ExportBadParams
    \/ ExportFailed
    \/ ExportWritten

SpecWav == InitWav /\ [][NextWav]_vars

\* The App from its construction on
AppFiles == {<<LineTone>>, <<LineComment>>, <<LineSilencePadded, LineTone>>}

InitApp ==
    /\ WavIdle /\ AppInit
    /\ ParseIdle /\ SynthIdle

NextApp ==
    \/ \E content \in AppFiles : OnOpenOk(content)
    \/ \E content \in AppFiles : OnOpenFail(content)
    \/ \E v \in {DefaultVol, 50} : EditVolume(v)
    \/ OnPlayBusy
    \/ OnPlayFail
    \/ OnPlayStart
    \/ OnStop
    \/ \E id \in alive : PlayerEnd(id)
    \/ WaitEndExit
    \/ PlayDone

SpecApp == InitApp /\ [][NextApp]_vars


\* ---------------------------------------------------------------------------
\* Properties of synthesize_pcm16 (specification Spec)
\* ---------------------------------------------------------------------------
Saturate(lo, hi, x) == IF x < lo THEN lo ELSE IF x > hi THEN hi ELSE x

\* The integer nearest to num / den, the even one of two equally near
Nearest(num, den) ==
    LET lo == num \div den
        below == num - den * lo
        above == den * (lo + 1) - num
    IN  IF below < above THEN lo
        ELSE IF above < below THEN lo + 1
        ELSE IF lo % 2 = 0 THEN lo ELSE lo + 1

EffRate == Saturate(8000, 192000, args.samplerate)
EffRampSamples == (EffRate * Saturate(0, 500, args.ramp_ms)) \div 10000

\* What row i of the schedule contributes
ExpSegLen(i) ==
    LET n == Nearest(EffRate * args.rows[i][1], 1000) IN IF n <= 0 THEN 0 ELSE n

\* Samples of the rows before row i
RECURSIVE Offset(_)
Offset(i) == IF i <= 1 THEN 0 ELSE Offset(i - 1) + ExpSegLen(i - 1)

Running == synth_pc \in {"loop", "returned"}
IsTone(i) == args.rows[i][2] = 1 /\ ExpSegLen(i) > 0
IsSilence(i) == args.rows[i][2] = 0 /\ ExpSegLen(i) > 0

\* The two bytes of the sample that lies n samples after the first off ones
LoByte(off, n) == frames[2 * (off + n) + 1]
HiByte(off, n) == frames[2 * (off + n) + 2]

C6_Silence ==
    [][ /\ (synth_pc = "loop" /\ seg_i < Len(args.rows) /\ IsSilence(seg_i + 1)) =>
             /\ Len(frames) = 2 * Offset(seg_i + 1)
             /\ frames' = frames \o [b \in 1..(2 * ExpSegLen(seg_i + 1)) |-> ZeroByte]
             /\ t' = t + ExpSegLen(seg_i + 1)
        /\ (seg_i' = seg_i + 1) => Len(frames') = 2 * t' ]_vars

C6_Witness ==
    /\ synth_pc = "returned"
    /\ \E i \in 1..Len(args.rows) :
          LET off == Offset(i)
          IN  /\ IsSilence(i) /\ off > 0
              /\ \A n \in 0..(ExpSegLen(i) - 1) :
                    LoByte(off, n) = ZeroByte /\ HiByte(off, n) = ZeroByte

\* C7: local sample n of a tone row uses, inside the sine, the index n plus
\* the lengths of all earlier rows: the index is never reset at a boundary.
C7_AbsoluteIndex ==
    Running =>
        \A i \in 1..seg_i : IsTone(i) =>
            LET off == Offset(i)
            IN  \A n \in 0..(ExpSegLen(i) - 1) :
                    /\ LoByte(off, n).kind = "tone" /\ LoByte(off, n).t = off + n
                    /\ HiByte(off, n).kind = "tone" /\ HiByte(off, n).t = off + n

C7_Witness ==
    /\ synth_pc = "returned"
    /\ Len(args.rows) = 2
    /\ IsSilence(1) /\ IsTone(2)
    /\ LoByte(Offset(2), 0).t = ExpSegLen(1)

\* C8: the envelope of local sample n of a tone row is 1.0 when ramp_samples
\* is 0; otherwise the fade-in of n when n < ramp_samples; otherwise the
\* fade-out of k = seg_len - n when seg_len - n <= ramp_samples; otherwise 1.0.
\* Where both fade conditions hold the fade-in alone is used.
C8_EnvelopeBranch ==
    Running =>
        \A i \in 1..seg_i : IsTone(i) =>
            LET off == Offset(i)
                rs == EffRampSamples
                len == ExpSegLen(i)
            IN  \A n \in 0..(len - 1) :
                    LET b == LoByte(off, n)
                    IN  /\ rs = 0 => b.branch = "one"
                        /\ (rs > 0 /\ n < rs) => (b.branch = "in" /\ b.k = n)
                        /\ (rs > 0 /\ n >= rs /\ len - n <= rs) =>
                               (b.branch = "out" /\ b.k = len - n)
                        /\ (rs > 0 /\ n >= rs /\ len - n > rs) => b.branch = "one"
                        /\ HiByte(off, n).branch = b.branch /\ HiByte(off, n).k = b.k

C8_Witness ==
    /\ synth_pc = "returned"
    /\ \E i \in 1..Len(args.rows) :
          LET off == Offset(i)
          IN  /\ IsTone(i)
              /\ \E n \in 0..(ExpSegLen(i) - 1) :
                    /\ n < EffRampSamples /\ ExpSegLen(i) - n <= EffRampSamples
                    /\ LoByte(off, n).branch = "in"
              /\ \E n \in 0..(ExpSegLen(i) - 1) : LoByte(off, n).branch = "out"

\* C9 as stated: every sample of a tone row with 0 < seg_len < 2 * ramp_samples
\* takes the fade-in branch.
C9_Original ==
    Running =>
        \A i \in 1..seg_i : (IsTone(i) /\ ExpSegLen(i) < 2 * EffRampSamples) =>
            LET off == Offset(i)
            IN  \A n \in 0..(ExpSegLen(i) - 1) : LoByte(off, n).branch = "in"

\* C9 amended: every sample of a tone row with 0 < seg_len <= ramp_samples
\* takes the fade-in branch; in a tone row with ramp_samples < seg_len <
\* 2 * ramp_samples the first ramp_samples samples take the fade-in branch and
\* all later ones the fade-out branch.
C9_ShortSegment ==
    Running =>
        \A i \in 1..seg_i : (IsTone(i) /\ ExpSegLen(i) < 2 * EffRampSamples) =>
            LET off == Offset(i)
                rs == EffRampSamples
                len == ExpSegLen(i)
            IN  \A n \in 0..(len - 1) :
                    /\ len <= rs => LoByte(off, n).branch = "in"
                    /\ n < rs => LoByte(off, n).branch = "in"
                    /\ n >= rs => LoByte(off, n).branch = "out"

C9_Witness ==
    /\ synth_pc = "returned"
    /\ \E i \in 1..Len(args.rows) :
          LET off == Offset(i)
              rs == EffRampSamples
          IN  /\ IsTone(i)
              /\ rs < ExpSegLen(i) /\ ExpSegLen(i) < 2 * rs
              /\ LoByte(off, rs - 1).branch = "in"
              /\ LoByte(off, rs).branch = "out"

\* ---------------------------------------------------------------------------
\* Properties of parse_paris (specification SpecParse)
\* ---------------------------------------------------------------------------
\* A line yields a row
Accepted(line) ==
    LET ln == Strip(line)
        f == Split(ln)
    IN  /\ ln # <<>>
        /\ ln[1] # "#"
        /\ Lower(Strip(f[1])) # HeaderWord
        /\ Len(f) = 2
        /\ IntOk(Strip(f[1])) /\ IntOk(Strip(f[2]))
        /\ IntVal(Strip(f[1])) >= 0

RowOf(line) ==
    LET f == Split(Strip(line))
    IN  <<IntVal(Strip(f[1])), IF IntVal(Strip(f[2])) = 0 THEN 0 ELSE 1>>

\* The rows of the accepted lines among the first k, in their order
RECURSIVE AcceptedRows(_)
AcceptedRows(k) ==
    IF k = 0 THEN <<>>
    ELSE IF Accepted(lines[k]) THEN Append(AcceptedRows(k - 1), RowOf(lines[k]))
    ELSE AcceptedRows(k - 1)

\* C3: parse_paris raises, handing back no rows, exactly when no line of the
\* input is accepted; skipped lines never make it raise.
C3_RaiseIffNoRow ==
    /\ parse_pc = "raised" =>
          /\ ln_i = Len(lines)
          /\ \A k \in 1..Len(lines) : ~Accepted(lines[k])
          /\ rows = <<>>
    /\ parse_pc = "returned" =>
          /\ ln_i = Len(lines)
          /\ \E k \in 1..Len(lines) : Accepted(lines[k])
    /\ (parse_pc = "loop" /\ ln_i = Len(lines)) =>
          (ENABLED ParseRaise <=> \A k \in 1..Len(lines) : ~Accepted(lines[k]))

C3_Witness ==
    /\ parse_pc = "returned"
    /\ \E j, k \in 1..Len(lines) : ~Accepted(lines[j]) /\ Accepted(lines[k])

\* C4: the rows are the accepted lines, mapped to (duration, 0 or 1), in the
\* order of the input; zero durations and duplicates stay.
C4_RowsAreFilteredLines ==
    /\ parse_pc \in {"loop", "returned"} => rows = AcceptedRows(ln_i)
    /\ parse_pc = "returned" => rows = AcceptedRows(Len(lines))

C4_Witness ==
    /\ parse_pc = "returned"
    /\ Len(lines) = 2 /\ lines[1] # lines[2]
    /\ rows = <<(<<0, 1>>), (<<1, 1>>)>>


\* ---------------------------------------------------------------------------
\* Properties of App.synthesize_to_wav (specification SpecWav)
\* ---------------------------------------------------------------------------
\* What synthesize_pcm16 returns for the file and the entries as they stand
EntrySynth ==
    SynthesizePcm16(ParseParis(fs).rows, var_freq, IntOfTenths(var_sr), var_vol, var_ramp)

\* C2 as stated: whatever numbers the entries hold, a request on a file with
\* rows succeeds, and the sample rate it uses is the entry saturated to
\* [8000, 192000].
C2_Original ==
    (outcome # "none" /\ ~ParseParis(fs).raised) =>
        /\ outcome = "written"
        /\ wav.framerate = Saturate(8000, 192000, IntOfTenths(var_sr))
        /\ wav.data = EntrySynth.frames

\* C5 as stated: the written container holds total_samples frames of mono
\* 16-bit data and carries the sample rate at which the segment lengths of
\* the buffer were computed.
C5_Original ==
    outcome = "written" =>
        /\ wav.nchannels = 1 /\ wav.sampwidth = 2
        /\ wav.nframes = EntrySynth.t
        /\ Len(wav.data) = 2 * EntrySynth.t
        /\ wav.framerate = Saturate(8000, 192000, IntOfTenths(var_sr))

\* ---------------------------------------------------------------------------
\* Properties of playback (specification SpecApp)
\* ---------------------------------------------------------------------------
\* C10: at most one PlayerThread runs at any time.  While player_thread is
\* set, no step starts a thread, makes a temp directory or changes tmp_wav,
\* except the step that resets player_thread: that step is _play_done, taken
\* after the thread has ended, and it removes the preview directory.
C10_SinglePlayback ==
    /\ [](Cardinality(alive) <= 1 /\ alive \subseteq {player_thread})
    /\ [][ player_thread # NoId =>
             \/ /\ player_thread' = player_thread
                /\ started' = started /\ made' = made /\ dirs' = dirs
                /\ tmp_wav' = tmp_wav
             \/ /\ player_thread' = NoId
                /\ pending' = pending - 1
                /\ player_thread \notin alive
                /\ started' = started /\ made' = made
                /\ tmp_wav' = NoId /\ tmp_wav \notin dirs' ]_vars

C10_Witness ==
    /\ player_thread = 2 /\ player_thread \in alive
    /\ btn_play = "normal"
    /\ tmp_wav = 2 /\ dirs = {2}

====
